---- MODULE Spec2Model ----
(***************************************************************************)
(* Tessy: a build orchestrator.  The model covers Application::run (the   *)
(* driver), DependencyGraph::from_config, the Executor (seeding, dispatch, *)
(* completion loop) and the DependencyTracker's up-to-date decision and    *)
(* post-run update, over a small filesystem.                               *)
(*                                                                         *)
(* Task ids and paths are strings, as in the source.  A task's inputs are  *)
(* modelled by the set of file paths its input strings cover (a file input *)
(* covers itself, a directory input every file below it).  A file's        *)
(* fingerprint is its modification stamp (0: the path does not exist, a    *)
(* negative stamp: a modification time before the Unix epoch); the         *)
(* platform always reports a modification time, so the content hash is     *)
(* never taken.                                                            *)
(***************************************************************************)
EXTENDS Integers, Sequences, FiniteSets, TLC

\* ------------------------------------------------------------------ bounds
MaxRuns == 2
MaxFsChanges == 1
MaxMarked == 1
\* the largest hardware parallelism the platform reports
MaxParallelism == 2
\* the fingerprints taken of the probed path
MaxProbes == 2
\* the longest content of the probed path, in bytes
MaxContent == 2
\* the longest dependsOn or inputs sequence of a parsed task body
MaxItems == 2

\* --------------------------------------------------------------- constants
\* STANDARD_DEPENDENCY_FILE_PATH, below the project root
CacheFile == ".tessy/dependencies.bincode.zstd"
\* the ordinary files of the project
Files == {"in.txt"}
Paths == {CacheFile} \cup Files
\* the project root, the directory an input covering every path names
Root == "."
\* env::current_dir() fails
Unavailable == "cwd"
\* What the platform can refuse: the working directory, the listing of the
\* root, the metadata of an ordinary file.
Faults == {Unavailable, Root} \cup Files
\* zstd::encode_all fails
Uncompressed == "zstd"
\* fs::write cannot create the cache file (permissions, a missing directory)
Unopened == "create"
\* fs::write fails after it created the cache file (a full disk)
Unwritten == "write"
\* What the platform can refuse when the tracker is written.
WriteFaults == {Uncompressed, Unopened, Unwritten}
\* The cache file that fs::write created and could not fill.
Truncated == [exists |-> TRUE, zstd |-> FALSE, bincode |-> FALSE, tracker |-> <<>>]
\* The cache file before any run wrote it.
NoCache == [exists |-> FALSE, zstd |-> FALSE, bincode |-> FALSE, tracker |-> <<>>]
Range(s) == {s[i] : i \in DOMAIN s}

\* ---------------------------------------------------------------- catalogs
\* The dependency lists of the task catalogs the runs draw from: the
\* end-to-end scenarios (chain, diamond, pruning) and the malformed shapes
\* the graph builder tolerates (a dependency listed twice, a cycle, a
\* self-dependency, a dependency id that no task defines).
Chain == [a |-> <<>>, b |-> <<"a">>, c |-> <<"b">>]
Diamond == [a |-> <<>>, b |-> <<"a">>, c |-> <<"a">>, d |-> <<"b", "c">>]
Pruning == [a |-> <<>>, b |-> <<"a">>, z |-> <<>>]
DupDep == [a |-> <<>>, b |-> <<"a", "a">>]
Cyclic == [a |-> <<"b">>, b |-> <<"a">>, c |-> <<"a">>]
SelfDep == [s |-> <<"s">>]
MissingDep == [a |-> <<>>, b |-> <<"a", "x">>]
Catalogs == {Chain, Diamond, Pruning, DupDep, Cyclic, SelfDep, MissingDep}
\* the catalog of the runs that exercise the dependency tracker
Pair == [a |-> <<>>, b |-> <<"a">>]
\* An id no catalog defines: a target the catalog does not hold.
Undefined == "x"

\* A task's inputs cover nothing, an ordinary file, or every path (the
\* project root ".", the cache file included).
InputSets == {{}} \cup {{f} : f \in Files} \cup {Paths}
Commands == {"exit0", "exit1"}
\* The task most tasks are: its command succeeds and it declares no inputs.
DefaultAttributes == [command |-> "exit0", inputs |-> {}]
\* What a task can be: a succeeding command with any inputs, or a failing
\* command (its inputs never matter: a task that fails gets no record).
Attributes ==
    [command : {"exit0"}, inputs : InputSets] \cup {[command |-> "exit1", inputs |-> {}]}

\* TaskRegistry: task id -> Task (BaseTask's dependencies and inputs, and
\* ExecuteTask's command, here the exit status it produces).  At most
\* MaxMarked tasks of a registry differ from the default task.
RegistriesOf(catalogs) ==
    UNION { { [id \in DOMAIN deps |->
                 [dependencies |-> deps[id],
                  inputs |-> attr[id].inputs,
                  command |-> attr[id].command]] :
              attr \in {x \in [DOMAIN deps -> Attributes] :
                          Cardinality({id \in DOMAIN deps :
                                         x[id] # DefaultAttributes}) <= MaxMarked} } :
            deps \in catalogs }
TaskRegistries == RegistriesOf(Catalogs)

VARIABLES
    config,              \* the TaskRegistry read from tasks.yaml
    fs,                  \* path -> modification stamp, 0 when the path does not exist
    clock,               \* the filesystem's time: the stamp of the latest write
    cache,               \* the content of CacheFile: whether it exists, whether
                         \* its bytes decompress and decode, the tracker encoded
    bytes,               \* path -> version of the path's content
    changes,             \* external filesystem changes so far
    pc,                  \* "idle" | "seeding" | "processing" | "updating" | "exited"
    run,                 \* application runs started
    target,              \* RuntimeConfig.target of the current run
    saved_dependencies,  \* the DependencyTracker loaded by the run
    task_parents,        \* DependencyGraph.task_parents
    dependency_counts,   \* execute(): remaining dependencies per task
    ready_tasks,         \* dispatch_initial_tasks: collected, not yet dispatched
    queue,               \* the completion channel
    task_ids,            \* process_task_results: the completed vector
    inflight,            \* task id -> closures in the worker pool not yet finished
    result,              \* what execute() returned, "none" while it runs
    dispatched,          \* history: dispatch_task calls of this run, in order
    skipped,             \* history: tasks that took the skip path in this run
    spawned,             \* history: task id -> subprocesses spawned in this run
    log,                 \* history: the summaries of the previous run and, once
                         \* it has ended, of the current one
    loaded,              \* history: the cache file as the current run read it
    checks,              \* history: per dispatch_task call of this run, the
                         \* record found and the inputs' state at that time
    recorded,            \* history: task id -> the inputs' state when the
                         \* task's record was last taken
    readback,            \* history: what reading the cache file gave right
                         \* after the last write of the tracker
    results,             \* history: per Task::run of this run, what became of
                         \* the subprocess and the Result returned
    probe,               \* a path fingerprinted on its own: what the platform
                         \* answers for it, and the fingerprints taken so far
    faults,              \* what the platform refuses at present: the working
                         \* directory, the listing of the root, a file's metadata
    yaml                 \* a task body of tasks.yaml parsed on its own: the
                         \* mapping, and the BaseTask made of it

vars == <<config, fs, clock, cache, changes, pc, run, target, saved_dependencies,
          task_parents, dependency_counts, ready_tasks, queue, task_ids, inflight,
          result, dispatched, skipped, spawned, log, bytes, loaded, checks, recorded,
          readback, results, probe, faults, yaml>>

\* ------------------------------------------------------- dependency graph
RECURSIVE collect_dependencies_recursive(_, _, _)
RECURSIVE CollectEach(_, _, _, _)
RECURSIVE collect_on_path(_, _, _)
RECURSIVE CollectOnPathEach(_, _, _, _)

\* Mutant: the DFS does not descend below the dependencies of the task.
collect_dependencies_shallow(cfg, task_id, visited) ==
    visited \o <<task_id>>
        \o (IF task_id \in DOMAIN cfg THEN cfg[task_id].dependencies ELSE <<>>)

\* Mutant: each call gets its own copy of the visited set, so the set holds
\* the ids on the path from the target only.
collect_on_path(cfg, task_id, visited) ==
    IF task_id \in Range(visited) THEN <<>>
    ELSE IF task_id \in DOMAIN cfg
         THEN <<task_id>> \o CollectOnPathEach(cfg, cfg[task_id].dependencies, 1,
                                                Append(visited, task_id))
         ELSE <<task_id>>

CollectOnPathEach(cfg, deps, i, visited) ==
    IF i > Len(deps) THEN <<>>
    ELSE collect_on_path(cfg, deps[i], visited)
             \o CollectOnPathEach(cfg, deps, i + 1, visited)

\* DependencyGraph::collect_dependencies_recursive: DFS with a visited set.
\* needed_tasks and visited always hold the same ids; they are kept as one
\* list, in the order of the inserts.
collect_dependencies_recursive(cfg, task_id, visited) ==
    IF task_id \in Range(visited) THEN visited
    ELSE IF task_id \in DOMAIN cfg
         THEN CollectEach(cfg, cfg[task_id].dependencies, 1, Append(visited, task_id))
         ELSE Append(visited, task_id)

\* the `for dep_id in task.dependencies()` loop of the DFS
CollectEach(cfg, deps, i, visited) ==
    IF i > Len(deps) THEN visited
    ELSE CollectEach(cfg, deps, i + 1,
                     collect_dependencies_recursive(cfg, deps[i], visited))

\* Mutant: ids that no task defines are left out of the needed tasks.
collect_needed_tasks_defined(cfg, final_task) ==
    Range(collect_dependencies_recursive(cfg, final_task, <<>>)) \cap DOMAIN cfg

collect_needed_tasks(cfg, final_task) ==
    Range(collect_dependencies_recursive(cfg, final_task, <<>>))

\* The orders in which a HashSet of ids can be iterated.
Orders(S) ==
    {o \in [1..Cardinality(S) -> S] : \A i, j \in DOMAIN o : i # j => o[i] # o[j]}

\* Mutant: only the first dependency of a task gets the task as a parent.
PushFirstDep(parents, task_id, deps, i) ==
    IF deps # <<>> /\ deps[1] \in DOMAIN parents
    THEN [parents EXCEPT ![deps[1]] = Append(@, task_id)]
    ELSE parents

RECURSIVE PushDeps(_, _, _, _)
\* the inner loop of from_config: push task_id onto the parents of each dependency
PushDeps(parents, task_id, deps, i) ==
    IF i > Len(deps) THEN parents
    ELSE PushDeps(IF deps[i] \in DOMAIN parents
                  THEN [parents EXCEPT ![deps[i]] = Append(@, task_id)]
                  ELSE parents,
                  task_id, deps, i + 1)

RECURSIVE BuildParents(_, _, _, _)
\* the outer loop of from_config over needed_tasks, iterated in `order`
BuildParents(cfg, order, i, parents) ==
    IF i > Len(order) THEN parents
    ELSE BuildParents(cfg, order, i + 1,
                      IF order[i] \in DOMAIN cfg
                      THEN PushDeps(parents, order[i], cfg[order[i]].dependencies, 1)
                      ELSE parents)

\* DependencyGraph::from_config, for one iteration order of needed_tasks
from_config(cfg, final_task, order) ==
    BuildParents(cfg, order, 1, [id \in collect_needed_tasks(cfg, final_task) |-> <<>>])

\* ------------------------------------------------------------ fingerprint
\* What the platform answers for a path: whether path.metadata() succeeds,
\* whether the path is a directory, the modification time (<<t>>, or <<>>
\* when metadata.modified() fails), whether fs::read succeeds, and the bytes.
Contents == UNION {[1..n -> 0..1] : n \in 0..MaxContent}
Entries ==
    [metadata : BOOLEAN, is_dir : BOOLEAN, modified : {<<>>, <<1>>, <<2>>},
     readable : BOOLEAN, content : Contents]
\* an ordinary file on a platform that reports modification times
PlainFile ==
    [metadata |-> TRUE, is_dir |-> FALSE, modified |-> <<1>>, readable |-> TRUE,
     content |-> <<>>]

RECURSIVE MetroHash(_, _, _)
\* MetroHasher: the hash is a function of every byte written, in order
MetroHash(content, i, h) ==
    IF i > Len(content) THEN h
    ELSE MetroHash(content, i + 1, (h * 31 + content[i] + 1) % 65536)

ModifiedTime(t) == [kind |-> "ModifiedTime", value |-> t]
Hash(h) == [kind |-> "Hash", value |-> h]

\* Mutant: the modification time is not tried, the file is always hashed.
async_try_from_always_hash(entry) ==
    IF ~entry.metadata THEN [ok |-> FALSE, error |-> "PathError", read |-> FALSE]
    ELSE IF entry.is_dir THEN [ok |-> FALSE, error |-> "DirectoryError", read |-> FALSE]
    ELSE IF ~entry.readable THEN [ok |-> FALSE, error |-> "PathError", read |-> TRUE]
    ELSE [ok |-> TRUE, fingerprint |-> Hash(MetroHash(entry.content, 1, 0)),
          read |-> TRUE]

\* FileFingerprint::async_try_from; `read` tells whether fs::read was called
async_try_from(entry) ==
    IF ~entry.metadata THEN [ok |-> FALSE, error |-> "PathError", read |-> FALSE]
    ELSE IF entry.is_dir THEN [ok |-> FALSE, error |-> "DirectoryError", read |-> FALSE]
    ELSE IF entry.modified # <<>>
    THEN [ok |-> TRUE, fingerprint |-> ModifiedTime(entry.modified[1]), read |-> FALSE]
    ELSE IF ~entry.readable THEN [ok |-> FALSE, error |-> "PathError", read |-> TRUE]
    ELSE [ok |-> TRUE, fingerprint |-> Hash(MetroHash(entry.content, 1, 0)),
          read |-> TRUE]

\* ------------------------------------------------------------- task bodies
\* The Yaml nodes of a task body: scalars of the kinds as_str tells apart,
\* and sequences of scalars.
YamlString(v) == [yaml |-> "String", value |-> v]
YamlInteger == [yaml |-> "Integer", value |-> "42"]
YamlFloat == [yaml |-> "FloatingPoint", value |-> "1.23"]
YamlItems == {YamlString("valid_dep"), YamlString("another_valid_dep"),
              YamlInteger, YamlFloat}
YamlSequence(items) == [yaml |-> "Sequence", items |-> items]
YamlValues ==
    YamlItems \cup {YamlSequence(items) :
                       items \in UNION {[1..n -> YamlItems] : n \in 0..MaxItems}}
\* A task body: a mapping that may hold dependsOn and inputs.
EmptyBody == <<>>
Bodies == UNION {[keys -> YamlValues] : keys \in SUBSET {"dependsOn", "inputs"}}

\* Yaml::as_str and Yaml::as_sequence, as Options
as_str(item) == IF item.yaml = "String" THEN <<item.value>> ELSE <<>>
as_sequence(v) == IF v.yaml = "Sequence" THEN <<v.items>> ELSE <<>>

RECURSIVE take_while_as_str(_, _)
\* Mutant: the items are taken up to the first one that is not a string.
take_while_as_str(seq, i) ==
    IF i > Len(seq) \/ as_str(seq[i]) = <<>> THEN <<>>
    ELSE as_str(seq[i]) \o take_while_as_str(seq, i + 1)

RECURSIVE filter_map_as_str(_, _)
\* seq.iter().filter_map(|item| item.as_str()).collect(), from item i on
filter_map_as_str(seq, i) ==
    IF i > Len(seq) THEN <<>>
    ELSE as_str(seq[i]) \o filter_map_as_str(seq, i + 1)

\* task_data.get(key).and_then(as_sequence).map(filter_map).unwrap_or_default()
StringsOf(task_data, key) ==
    IF key \notin DOMAIN task_data THEN <<>>
    ELSE IF as_sequence(task_data[key]) = <<>> THEN <<>>
    ELSE filter_map_as_str(as_sequence(task_data[key])[1], 1)

\* BaseTask::from_task_yaml, as an Option
BaseTask_from_task_yaml(task_name, task_data) ==
    <<[name |-> task_name,
       dependencies |-> StringsOf(task_data, "dependsOn"),
       inputs |-> StringsOf(task_data, "inputs")]>>

\* ------------------------------------------------------ dependency tracker
\* What the platform answers for the file p of the filesystem `files`.
EntryOf(files, p) ==
    [PlainFile EXCEPT !.metadata = p \notin files.faults,
                      !.modified = <<files.mtime[p]>>]

\* Mutant: an input that cannot be fingerprinted keeps its path in the map,
\* under a fingerprint no file has.
get_dependencies_from_inputs_marking_errors(inputs, files) ==
    [p \in {q \in inputs : files.mtime[q] # 0} |->
        IF Unavailable \in files.faults \/ p \in files.faults
           \/ (inputs = Paths /\ Root \in files.faults)
        THEN 99 ELSE files.mtime[p]]

\* DependencyTracker::get_dependencies_from_inputs: the fingerprint of every
\* existing file the inputs cover.  Left out are the paths that do not
\* exist, every path when env::current_dir() fails, the files below a
\* directory that read_dir cannot list, and the files async_try_from fails
\* on.  Every fingerprint here is a ModifiedTime; its time is kept.
get_dependencies_from_inputs(inputs, files) ==
    IF Unavailable \in files.faults THEN <<>>
    ELSE IF inputs = Paths /\ Root \in files.faults THEN <<>>
    ELSE [p \in {q \in inputs : /\ files.mtime[q] # 0
                                /\ async_try_from(EntryOf(files, q)).ok} |->
             async_try_from(EntryOf(files, p)).fingerprint.value]

\* Mutant: only the key sets are compared.
is_task_up_to_date_keys_only(tracker, cfg, task_id, files) ==
    /\ task_id \in DOMAIN tracker
    /\ DOMAIN tracker[task_id] =
           DOMAIN get_dependencies_from_inputs(cfg[task_id].inputs, files)

\* Mutant: a task without a record is compared with the empty record.
is_task_up_to_date_default_record(tracker, cfg, task_id, files) ==
    (IF task_id \in DOMAIN tracker THEN tracker[task_id] ELSE <<>>)
        = get_dependencies_from_inputs(cfg[task_id].inputs, files)

\* Mutant: only the paths present on both sides are compared.
is_task_up_to_date_common_keys(tracker, cfg, task_id, files) ==
    /\ task_id \in DOMAIN tracker
    /\ LET current == get_dependencies_from_inputs(cfg[task_id].inputs, files)
       IN  \A p \in DOMAIN tracker[task_id] \cap DOMAIN current :
               tracker[task_id][p] = current[p]

\* Mutant: an empty record never counts as up to date.
is_task_up_to_date_nonempty(tracker, cfg, task_id, files) ==
    /\ task_id \in DOMAIN tracker
    /\ tracker[task_id] # <<>>
    /\ tracker[task_id] = get_dependencies_from_inputs(cfg[task_id].inputs, files)

\* Mutant: a task is up to date only if its dependencies are, too.
is_task_up_to_date_with_dependencies(tracker, cfg, task_id, files) ==
    \A id \in {task_id} \cup (Range(cfg[task_id].dependencies) \cap DOMAIN cfg) :
        /\ id \in DOMAIN tracker
        /\ tracker[id] = get_dependencies_from_inputs(cfg[id].inputs, files)

\* DependencyTracker::is_task_up_to_date
is_task_up_to_date(tracker, cfg, task_id, files) ==
    /\ task_id \in DOMAIN tracker
    /\ tracker[task_id] = get_dependencies_from_inputs(cfg[task_id].inputs, files)

\* Mutant: the bytes of the cache file are taken as they are.
read_unchecked(stored) == stored.tracker

\* DependencyTracker::read_from_bytes: bytes that do not decompress, or that
\* decompress to something that does not decode, give the default tracker
read_from_bytes(stored) ==
    IF ~stored.zstd THEN <<>>
    ELSE IF ~stored.bincode THEN <<>>
    ELSE stored.tracker

\* DependencyTracker::read / read_from_path: a cache file that cannot be
\* read gives the default tracker
ReadTracker(stored) == IF ~stored.exists THEN <<>> ELSE read_from_bytes(stored)

\* bincode::encode_to_vec fails on a SystemTime before the Unix epoch
\* (EncodeError::InvalidSystemTime): the tracker encodes only if none of its
\* fingerprints is such a time.
Encodable(tracker) ==
    \A id \in DOMAIN tracker : \A p \in DOMAIN tracker[id] : tracker[id][p] > 0

\* Mutant: the encoding keeps the task ids and loses their fingerprints.
write_task_ids_only(tracker, stored, refused) ==
    [exists |-> TRUE, zstd |-> TRUE, bincode |-> TRUE,
     tracker |-> [id \in DOMAIN tracker |-> <<>>]]

\* Mutant: the cache file is removed before the tracker is encoded.
write_into_path_remove_first(tracker, stored, refused) ==
    IF Encodable(tracker) /\ refused \cap WriteFaults = {}
    THEN [exists |-> TRUE, zstd |-> TRUE, bincode |-> TRUE, tracker |-> tracker]
    ELSE NoCache

\* How far write_into_path gets: it returns when the tracker does not
\* serialize or compress, and logs the error of a failed fs::write.
WriteOutcome(tracker, refused) ==
    IF ~Encodable(tracker) THEN "unserialized"
    ELSE IF Uncompressed \in refused THEN "uncompressed"
    ELSE IF Unopened \in refused THEN "unopened"
    ELSE IF Unwritten \in refused THEN "unwritten"
    ELSE "written"

\* DependencyTracker::write_into_path: the new content of the cache file.
\* The file is left as it was when the tracker does not serialize or
\* compress and when fs::write cannot create it; fs::write creates the file
\* empty before it writes, so a write that fails leaves it without content.
write_into_path(tracker, stored, refused) ==
    LET outcome == WriteOutcome(tracker, refused) IN
    IF outcome = "written"
    THEN [exists |-> TRUE, zstd |-> TRUE, bincode |-> TRUE, tracker |-> tracker]
    ELSE IF outcome = "unwritten" THEN Truncated
    ELSE stored

\* --------------------------------------------------------------- executor
\* Default number of worker threads when the parallelism cannot be determined
DEFAULT_WORKER_THREADS == 1

\* What available_parallelism() gives: a positive number, or 0 for its error.
Parallelism == 0..MaxParallelism

\* Mutant: no default when the parallelism cannot be determined.
determine_worker_count_no_default(parallelism) == parallelism

\* Executor::determine_worker_count: the width of the worker pool
determine_worker_count(parallelism) ==
    IF parallelism > 0 THEN parallelism ELSE DEFAULT_WORKER_THREADS

\* Executor::initialize_dependency_counts
initialize_dependency_counts(cfg) ==
    [id \in DOMAIN cfg |-> Len(cfg[id].dependencies)]

\* Mutant: the filter keeps every task of the graph.
InitialTasksUnfiltered(cfg, parents) ==
    {id \in DOMAIN parents : id \in DOMAIN cfg}

\* Mutant: the filter reads the dependency counts of the whole catalog.
InitialTasksByCount(cfg, parents) ==
    {id \in DOMAIN cfg : Len(cfg[id].dependencies) = 0}

\* Mutant: the filter is inverted.
InitialTasksInverted(cfg, parents) ==
    {id \in DOMAIN parents : parents[id] # <<>> /\ id \in DOMAIN cfg}

\* the filter of Executor::dispatch_initial_tasks
InitialTasks(cfg, parents) ==
    {id \in DOMAIN parents : parents[id] = <<>> /\ id \in DOMAIN cfg}

\* An event of the completion channel: Result<String, TaskError>
OkEvent(task_id) == [ok |-> TRUE, id |-> task_id]
ErrEvent(task_id) == [ok |-> FALSE, id |-> task_id]

\* Mutant: the skip path does not return and goes on to the worker pool.
dispatch_task_no_return(st, task_id, tracker, cfg, files, done) ==
    LET st1 == IF is_task_up_to_date(tracker, cfg, task_id, files)
               THEN [st EXCEPT !.queue = Append(@, OkEvent(task_id)),
                               !.skipped = @ \cup {task_id}]
               ELSE st
    IN  [st1 EXCEPT !.inflight[task_id] = @ + 1,
                    !.dispatched = Append(@, [id |-> task_id, done |-> done])]

\* Executor::dispatch_task on the scheduler's state st.  `done` is the
\* completed vector at the time of the call, kept in the history only.
dispatch_task(st, task_id, tracker, cfg, files, done) ==
    IF is_task_up_to_date(tracker, cfg, task_id, files)
    THEN [st EXCEPT !.queue = Append(@, OkEvent(task_id)),
                    !.skipped = @ \cup {task_id},
                    !.dispatched = Append(@, [id |-> task_id, done |-> done])]
    ELSE [st EXCEPT !.inflight[task_id] = @ + 1,
                    !.dispatched = Append(@, [id |-> task_id, done |-> done])]

RECURSIVE handle_task_completion(_, _, _, _, _, _, _)
\* Executor::handle_task_completion: the loop over the parents of the
\* completed task, from position i.  A count below 0 stands for the u32
\* the decrement wraps to (2^32 + count), which is never 0 again.
handle_task_completion(st, parent_tasks, i, tracker, cfg, files, done) ==
    IF i > Len(parent_tasks) THEN st
    ELSE LET parent_id == parent_tasks[i]
             count == st.dependency_counts[parent_id] - 1
             st1 == [st EXCEPT !.dependency_counts[parent_id] = count]
         IN  handle_task_completion(
                 IF parent_id \in DOMAIN st.dependency_counts
                 THEN IF count = 0 /\ parent_id \in DOMAIN cfg
                      THEN dispatch_task(st1, parent_id, tracker, cfg, files, done)
                      ELSE st1
                 ELSE st,
                 parent_tasks, i + 1, tracker, cfg, files, done)

\* The scheduler's state as one record, for the operators above.
SchedulerState ==
    [dependency_counts |-> dependency_counts, queue |-> queue, inflight |-> inflight,
     dispatched |-> dispatched, skipped |-> skipped]

RECURSIVE SumOver(_, _)
SumOver(f, S) ==
    IF S = {} THEN 0
    ELSE LET x == CHOOSE y \in S : TRUE IN f[x] + SumOver(f, S \ {x})

\* The senders of the completion channel that are alive: execute()'s own
\* task_sender, and the clone each forwarder of a dispatched task holds.
SendersAlive(infl) == 1 + SumOver(infl, DOMAIN infl)

\* history: the state of the paths a task's inputs cover
InputState(inputs) == [p \in inputs |-> [mtime |-> fs[p], bytes |-> bytes[p]]]

\* the filesystem as the tracker finds it
Platform == [mtime |-> fs, faults |-> faults]

\* The summary of the run that is ending with outcome r: what it returned
\* and the state of the completed tasks' inputs at that time.
RunSummary(r, completed) ==
    [target |-> target, result |-> r, completed |-> completed,
     spawned |-> SumOver(spawned, DOMAIN spawned), changes |-> changes,
     inputs |-> [id \in completed |-> InputState(config[id].inputs)]]

\* history: one entry per dispatch_task call that extended the dispatch
\* list `before` to `after`: the record the tracker held for the task, the
\* state of its inputs at the call and when its record was last taken, and
\* whether the call took the skip path.
NewChecks(before, after, skips) ==
    [i \in 1..(Len(after) - Len(before)) |->
        LET id == after[Len(before) + i].id IN
        [id |-> id,
         known |-> id \in DOMAIN saved_dependencies,
         record |-> IF id \in DOMAIN saved_dependencies
                    THEN saved_dependencies[id] ELSE <<>>,
         inputs |-> InputState(config[id].inputs),
         faults |-> faults,
         persisted |-> id \in DOMAIN recorded,
         at_record |-> IF id \in DOMAIN recorded THEN recorded[id] ELSE <<>>,
         skipped |-> id \in skips]]

InitWith(registries, entries, bodies) ==
    /\ config \in registries
    /\ probe \in {[entry |-> e, taken |-> <<>>] : e \in entries}
    /\ fs = [p \in Paths |-> IF p = CacheFile THEN 0 ELSE 1]
    /\ clock = 1
    /\ cache = NoCache
    /\ changes = 0
    /\ pc = "idle"
    /\ run = 0
    /\ target = Undefined
    /\ saved_dependencies = <<>>
    /\ task_parents = <<>>
    /\ dependency_counts = <<>>
    /\ ready_tasks = {}
    /\ queue = <<>>
    /\ task_ids = <<>>
    /\ inflight = <<>>
    /\ result = "none"
    /\ dispatched = <<>>
    /\ skipped = {}
    /\ spawned = <<>>
    /\ log = <<>>
    /\ bytes = [p \in Paths |-> 0]
    /\ loaded = NoCache
    /\ checks = <<>>
    /\ recorded = <<>>
    /\ readback = <<>>
    /\ results = <<>>
    /\ faults = {}
    /\ yaml \in {[name |-> "test_task", body |-> b, task |-> <<>>] : b \in bodies}

Init == InitWith(TaskRegistries, {PlainFile}, {EmptyBody})

\* Application::run up to the first dispatch: read the registry and the
\* tracker, build the graph, create the executor, enter execute() and
\* collect the initial tasks.
RunStart ==
    /\ pc \in {"idle", "exited"}
    /\ run < MaxRuns
    /\ \E t \in DOMAIN config \cup {Undefined} :
         \E graph \in {from_config(config, t, order) :
                           order \in Orders(collect_needed_tasks(config, t))} :
            /\ target' = t
            /\ task_parents' = graph
            /\ ready_tasks' = InitialTasks(config, graph)
    /\ run' = run + 1
    /\ saved_dependencies' = ReadTracker(cache)
    /\ dependency_counts' = initialize_dependency_counts(config)
    /\ queue' = <<>>
    /\ task_ids' = <<>>
    /\ inflight' = [id \in DOMAIN config |-> 0]
    /\ result' = "none"
    /\ dispatched' = <<>>
    /\ skipped' = {}
    /\ spawned' = [id \in DOMAIN config |-> 0]
    /\ pc' = IF ready_tasks' = {} THEN "processing" ELSE "seeding"
    /\ log' = IF log = <<>> THEN log ELSE <<log[Len(log)]>>
    /\ loaded' = cache
    /\ checks' = <<>>
    /\ results' = <<>>
    /\ UNCHANGED <<config, fs, clock, cache, changes, bytes, recorded, readback, probe, faults, yaml>>

\* One iteration of the `for task in ready_tasks` loop of
\* dispatch_initial_tasks (the tasks come in HashMap order).
DispatchInitial ==
    /\ pc = "seeding"
    /\ \E task_id \in ready_tasks :
         LET st == dispatch_task(SchedulerState, task_id, saved_dependencies,
                                 config, Platform, Range(task_ids))
         IN  /\ queue' = st.queue
             /\ inflight' = st.inflight
             /\ dispatched' = st.dispatched
             /\ skipped' = st.skipped
             /\ checks' = checks \o NewChecks(dispatched, st.dispatched, st.skipped)
             /\ ready_tasks' = ready_tasks \ {task_id}
             /\ pc' = IF ready_tasks' = {} THEN "processing" ELSE "seeding"
    /\ UNCHANGED <<config, fs, clock, cache, changes, run, target, saved_dependencies,
                   task_parents, dependency_counts, task_ids, result, spawned, log,
                   bytes, loaded, recorded, readback, results, probe, faults, yaml>>

\* What becomes of a task's subprocess: it is not spawned, waiting for it
\* fails, or it ends with an exit status, whose code is <<c>> for an exit
\* with code c and <<>> for a death by signal.
SpawnFailure == [spawned |-> FALSE, waited |-> FALSE, code |-> <<>>]
WaitFailure == [spawned |-> TRUE, waited |-> FALSE, code |-> <<>>]
Exited(c) == [spawned |-> TRUE, waited |-> TRUE, code |-> <<c>>]
Signaled == [spawned |-> TRUE, waited |-> TRUE, code |-> <<>>]
\* the end of `sh -c command` when nothing interferes
Exits(command) == IF command = "exit0" THEN Exited(0) ELSE Exited(1)

\* Mutant: the exit status is not looked at.
ExecuteTask_run_any_status(task_id, command, outcome) ==
    IF ~outcome.spawned
    THEN [ok |-> FALSE, error |-> [kind |-> "SpawnError", command |-> command,
                                   task_name |-> task_id]]
    ELSE IF ~outcome.waited
    THEN [ok |-> FALSE, error |-> [kind |-> "WaitError", command |-> command,
                                   task_name |-> task_id]]
    ELSE [ok |-> TRUE, value |-> task_id]

\* ExecuteTask::run: the Result for what became of the subprocess
ExecuteTask_run(task_id, command, outcome) ==
    IF ~outcome.spawned
    THEN [ok |-> FALSE, error |-> [kind |-> "SpawnError", command |-> command,
                                   task_name |-> task_id]]
    ELSE IF ~outcome.waited
    THEN [ok |-> FALSE, error |-> [kind |-> "WaitError", command |-> command,
                                   task_name |-> task_id]]
    ELSE IF outcome.code = <<0>>
    THEN [ok |-> TRUE, value |-> task_id]
    ELSE [ok |-> FALSE,
          error |-> [kind |-> "UnsuccessfulExecution", command |-> command,
                     task_name |-> task_id,
                     status |-> IF outcome.code = <<>> THEN -1 ELSE outcome.code[1]]]

\* A closure handed to the worker pool runs to its end: Task::run spawns
\* the subprocess and waits for it, and the forwarder sends the result to
\* the completion channel (the send fails once execute() has returned and
\* dropped the receiver).
TaskRunWith(task_id, outcome) ==
    /\ pc \in {"seeding", "processing", "updating"}
    /\ task_id \in DOMAIN inflight
    /\ inflight[task_id] > 0
    /\ inflight' = [inflight EXCEPT ![task_id] = @ - 1]
    /\ spawned' = IF outcome.spawned THEN [spawned EXCEPT ![task_id] = @ + 1]
                  ELSE spawned
    /\ LET r == ExecuteTask_run(task_id, config[task_id].command, outcome)
           ev == IF r.ok THEN OkEvent(r.value) ELSE ErrEvent(task_id)
       IN  /\ results' = Append(results,
                                [id |-> task_id, outcome |-> outcome, result |-> r,
                                 sent |-> IF pc = "updating" THEN <<>> ELSE <<ev>>,
                                 inputs |-> InputState(config[task_id].inputs)])
           /\ queue' = IF pc = "updating" THEN queue ELSE Append(queue, ev)
    /\ UNCHANGED <<config, fs, clock, cache, changes, pc, run, target,
                   saved_dependencies, task_parents, dependency_counts, ready_tasks,
                   task_ids, result, dispatched, skipped, log, bytes, loaded, checks,
                   recorded, readback, probe, faults, yaml>>

\* the subprocess ends as its command says
TaskRun(task_id) == TaskRunWith(task_id, Exits(config[task_id].command))

\* What becomes of a closure whose worker ends without an answer.
Canceled == [spawned |-> FALSE, waited |-> FALSE, code |-> <<>>, canceled |-> TRUE]

\* A closure handed to the worker pool is dropped before it answers: the
\* forwarder's receiver is cancelled and the forwarder sends
\* Err(CanceledError) to the completion channel.
TaskCanceled(task_id) ==
    /\ pc \in {"seeding", "processing"}
    /\ task_id \in DOMAIN inflight
    /\ inflight[task_id] > 0
    /\ inflight' = [inflight EXCEPT ![task_id] = @ - 1]
    /\ results' = Append(results,
                         [id |-> task_id, outcome |-> Canceled,
                          result |-> [ok |-> FALSE, error |-> [kind |-> "CanceledError"]],
                          sent |-> <<ErrEvent(task_id)>>,
                          inputs |-> InputState(config[task_id].inputs)])
    /\ queue' = Append(queue, ErrEvent(task_id))
    /\ UNCHANGED <<config, fs, clock, cache, changes, pc, run, target,
                   saved_dependencies, task_parents, dependency_counts, ready_tasks,
                   task_ids, result, dispatched, skipped, spawned, log, bytes, loaded,
                   checks, recorded, readback, probe, faults, yaml>>

\* The platform gets in the way of a task: the shell cannot be spawned,
\* waiting for the subprocess fails, or a signal kills it.
TaskDisturbed(task_id) ==
    \E outcome \in {SpawnFailure, WaitFailure, Signaled} : TaskRunWith(task_id, outcome)

\* Mutant: the loop drops an Err event and goes on to the next one.
IgnoreTaskExecutionError ==
    /\ queue' = Tail(queue)
    /\ UNCHANGED <<result, pc, log, task_ids, dependency_counts, inflight, dispatched,
                   skipped, checks>>

\* Mutant: the driver goes on to its update when execute() returned the error.
ReturnTaskExecutionErrorAndUpdate ==
    /\ result' = "TaskExecutionError"
    /\ pc' = "updating"
    /\ queue' = Tail(queue)
    /\ UNCHANGED <<log, task_ids, dependency_counts, inflight, dispatched, skipped,
                   checks>>

\* the Err arm of process_task_results: return the error, wrapped
ReturnTaskExecutionError ==
    /\ result' = "TaskExecutionError"
    /\ pc' = "exited"
    /\ queue' = Tail(queue)
    /\ log' = Append(log, RunSummary("TaskExecutionError", {}))
    /\ UNCHANGED <<task_ids, dependency_counts, inflight, dispatched, skipped, checks>>

\* One iteration of the `while let Some(result) = task_receiver.next().await`
\* loop of process_task_results; with an empty channel, next() yields None
\* only when no sender is alive.
ProcessTaskResult ==
    /\ pc = "processing"
    /\ IF queue # <<>>
       THEN LET ev == Head(queue) IN
            IF ev.ok
            THEN /\ task_ids' = Append(task_ids, ev.id)
                 /\ IF ev.id = target
                    THEN /\ result' = "Ok"
                         /\ pc' = "updating"
                         /\ queue' = Tail(queue)
                         /\ UNCHANGED <<dependency_counts, inflight, dispatched,
                                        skipped, log, checks>>
                    ELSE LET st == handle_task_completion(
                                       [SchedulerState EXCEPT !.queue = Tail(queue)],
                                       IF ev.id \in DOMAIN task_parents
                                       THEN task_parents[ev.id] ELSE <<>>,
                                       1, saved_dependencies, config, Platform,
                                       Range(task_ids'))
                         IN  /\ dependency_counts' = st.dependency_counts
                             /\ queue' = st.queue
                             /\ inflight' = st.inflight
                             /\ dispatched' = st.dispatched
                             /\ skipped' = st.skipped
                             /\ checks' = checks \o NewChecks(dispatched, st.dispatched,
                                                               st.skipped)
                             /\ UNCHANGED <<result, pc, log>>
            ELSE ReturnTaskExecutionError
       ELSE /\ SendersAlive(inflight) = 0
            /\ result' = "ExecutionEndedPrematurely"
            /\ pc' = "exited"
            /\ log' = Append(log, RunSummary("ExecutionEndedPrematurely", {}))
            /\ UNCHANGED <<queue, task_ids, dependency_counts, inflight, dispatched,
                           skipped, checks>>
    /\ UNCHANGED <<config, fs, clock, cache, changes, run, target, saved_dependencies,
                   task_parents, ready_tasks, spawned, bytes, loaded, recorded, readback,
                   results, probe, faults, yaml>>

\* Mutant: a task that has a record keeps it.
add_tasks_dependencies_if_absent(tracker, tasks, i, cfg, files) ==
    [id \in DOMAIN tracker \cup Range(tasks) |->
        IF id \in DOMAIN tracker THEN tracker[id]
        ELSE get_dependencies_from_inputs(cfg[id].inputs, files)]

\* Mutant: the update starts from an empty tracker.
add_tasks_dependencies_fresh(tracker, tasks, i, cfg, files) ==
    [id \in Range(tasks) |-> get_dependencies_from_inputs(cfg[id].inputs, files)]

\* Mutant: the record of a task that ran holds the fingerprints of its inputs
\* as they were when it ran.
add_tasks_dependencies_as_run(tracker, tasks, i, cfg, files) ==
    [id \in DOMAIN tracker \cup Range(tasks) |->
        IF id \notin Range(tasks) THEN tracker[id]
        ELSE IF \E k \in DOMAIN results : results[k].id = id
        THEN LET at_run == results[CHOOSE k \in DOMAIN results :
                                      results[k].id = id].inputs
             IN  [p \in {q \in DOMAIN at_run : at_run[q].mtime # 0} |->
                     at_run[p].mtime]
        ELSE get_dependencies_from_inputs(cfg[id].inputs, files)]

RECURSIVE add_tasks_dependencies(_, _, _, _, _)
\* DependencyTracker::add_tasks_dependencies over the completed vector
add_tasks_dependencies(tracker, tasks, i, cfg, files) ==
    IF i > Len(tasks) THEN tracker
    ELSE LET deps == get_dependencies_from_inputs(cfg[tasks[i]].inputs, files)
         IN  add_tasks_dependencies(
                 [id \in DOMAIN tracker \cup {tasks[i]} |->
                     IF id = tasks[i] THEN deps ELSE tracker[id]],
                 tasks, i + 1, cfg, files)

\* Application::run after execute() returned Ok: record the fingerprints of
\* the executed tasks and write the tracker to the cache file.
UpdateDependencies ==
    /\ pc = "updating"
    /\ saved_dependencies' =
           add_tasks_dependencies(saved_dependencies, task_ids, 1, config, Platform)
    /\ cache' = write_into_path(saved_dependencies', cache, faults)
    /\ IF WriteOutcome(saved_dependencies', faults) \in {"written", "unwritten"}
       THEN /\ clock' = clock + 1
            /\ fs' = [fs EXCEPT ![CacheFile] = clock + 1]
       ELSE UNCHANGED <<clock, fs>>
    /\ IF WriteOutcome(saved_dependencies', faults) = "written"
       THEN recorded' = [id \in DOMAIN recorded \cup Range(task_ids) |->
                            IF id \in Range(task_ids)
                            THEN InputState(config[id].inputs) ELSE recorded[id]]
       ELSE UNCHANGED recorded
    /\ readback' = ReadTracker(cache')
    /\ pc' = "exited"
    /\ log' = Append(log, RunSummary("Ok", Range(task_ids)))
    /\ UNCHANGED <<config, changes, run, target, task_parents, dependency_counts,
                   ready_tasks, queue, task_ids, inflight, result, dispatched,
                   skipped, spawned, bytes, loaded, checks, results, probe, faults, yaml>>

\* Another process acts on the project only while a run can still see it.
EnvEnabled ==
    /\ changes < MaxFsChanges
    /\ pc # "exited" \/ run < MaxRuns

\* Another process changes an ordinary file: writes it (new content, a new
\* modification time) or deletes it.
FsChange(p) ==
    /\ EnvEnabled
    /\ changes' = changes + 1
    /\ \/ /\ fs' = [fs EXCEPT ![p] = clock + 1]
          /\ bytes' = [bytes EXCEPT ![p] = changes + 1]
          /\ clock' = clock + 1
       \/ /\ fs[p] # 0
          /\ fs' = [fs EXCEPT ![p] = 0]
          /\ bytes' = [bytes EXCEPT ![p] = 0]
          /\ UNCHANGED clock
    /\ UNCHANGED <<config, cache, pc, run, target, saved_dependencies, task_parents,
                   dependency_counts, ready_tasks, queue, task_ids, inflight, result,
                   dispatched, skipped, spawned, log, loaded, checks, recorded, readback,
                   results, probe, faults, yaml>>

\* Another process rewrites an ordinary file and leaves its modification
\* time as it was (a write within the timestamp's granularity, or a copy
\* that restores the times).
FsRewrite(p) ==
    /\ EnvEnabled
    /\ fs[p] # 0
    /\ changes' = changes + 1
    /\ bytes' = [bytes EXCEPT ![p] = changes + 1]
    /\ UNCHANGED <<config, fs, clock, cache, pc, run, target, saved_dependencies,
                   task_parents, dependency_counts, ready_tasks, queue, task_ids,
                   inflight, result, dispatched, skipped, spawned, log, loaded, checks,
                   recorded, readback, results, probe, faults, yaml>>

\* Another process sets the modification time of an ordinary file to a time
\* before the Unix epoch; the content stays.
FsBackdate(p) ==
    /\ EnvEnabled
    /\ fs[p] > 0
    /\ changes' = changes + 1
    /\ fs' = [fs EXCEPT ![p] = -1]
    /\ UNCHANGED <<config, clock, cache, bytes, pc, run, target, saved_dependencies,
                   task_parents, dependency_counts, ready_tasks, queue, task_ids,
                   inflight, result, dispatched, skipped, spawned, log, loaded, checks,
                   recorded, readback, results, probe, faults, yaml>>

\* Another process damages the cache file: its bytes no longer decompress,
\* or decompress to bytes that do not decode.
CacheCorrupt ==
    /\ EnvEnabled
    /\ cache.exists /\ cache.zstd /\ cache.bincode
    /\ changes' = changes + 1
    /\ \E damaged \in {[cache EXCEPT !.zstd = FALSE], [cache EXCEPT !.bincode = FALSE]} :
          cache' = damaged
    /\ fs' = [fs EXCEPT ![CacheFile] = clock + 1]
    /\ clock' = clock + 1
    /\ UNCHANGED <<config, bytes, pc, run, target, saved_dependencies, task_parents,
                   dependency_counts, ready_tasks, queue, task_ids, inflight, result,
                   dispatched, skipped, spawned, log, loaded, checks, recorded, readback,
                   results, probe, faults, yaml>>

Next ==
    \/ RunStart
    \/ DispatchInitial
    \/ \E task_id \in DOMAIN config : TaskRun(task_id)
    \/ ProcessTaskResult
    \/ UpdateDependencies
    \/ \E p \in Files : FsChange(p)

Spec == Init /\ [][Next]_vars

\* The runs that exercise the dependency tracker and the tasks' results:
\* one small catalog, and an environment that also rewrites files in place,
\* backdates them, damages the cache file and disturbs subprocesses.
TrackerInit == InitWith(RegistriesOf({Pair}), {PlainFile}, {EmptyBody})
TrackerNext ==
    \/ RunStart
    \/ DispatchInitial
    \/ \E task_id \in DOMAIN config : TaskRun(task_id)
    \/ ProcessTaskResult
    \/ UpdateDependencies
    \/ \E p \in Files : FsChange(p)
    \/ \E p \in Files : FsRewrite(p)
    \/ \E p \in Files : FsBackdate(p)
    \/ CacheCorrupt
    \/ \E task_id \in DOMAIN config : TaskDisturbed(task_id)
TrackerSpec == TrackerInit /\ [][TrackerNext]_vars

\* The platform starts or stops refusing something: the working directory
\* is removed or restored, the root or a file loses or regains its
\* permissions.
FaultChange(f) ==
    /\ EnvEnabled
    /\ changes' = changes + 1
    /\ faults' = IF f \in faults THEN faults \ {f} ELSE faults \cup {f}
    /\ UNCHANGED <<config, fs, clock, cache, bytes, pc, run, target,
                   saved_dependencies, task_parents, dependency_counts, ready_tasks,
                   queue, task_ids, inflight, result, dispatched, skipped, spawned,
                   log, loaded, checks, recorded, readback, results, probe, yaml>>

\* The runs of the worker pool: subprocesses that fail in every way, and
\* closures the pool drops.
PoolNext ==
    \/ RunStart
    \/ DispatchInitial
    \/ \E task_id \in DOMAIN config : TaskRun(task_id)
    \/ ProcessTaskResult
    \/ UpdateDependencies
    \/ \E p \in Files : FsChange(p)
    \/ \E task_id \in DOMAIN config : TaskDisturbed(task_id)
    \/ \E task_id \in DOMAIN config : TaskCanceled(task_id)
PoolSpec == TrackerInit /\ [][PoolNext]_vars

\* The runs of the tracker on a platform that refuses things.
FaultNext ==
    \/ RunStart
    \/ DispatchInitial
    \/ \E task_id \in DOMAIN config : TaskRun(task_id)
    \/ ProcessTaskResult
    \/ UpdateDependencies
    \/ \E p \in Files : FsChange(p)
    \/ \E f \in Faults : FaultChange(f)
FaultSpec == TrackerInit /\ [][FaultNext]_vars

\* The runs of the tracker on a platform that refuses the write of the cache
\* file, with files whose times do not serialize.
WriteNext ==
    \/ RunStart
    \/ DispatchInitial
    \/ \E task_id \in DOMAIN config : TaskRun(task_id)
    \/ ProcessTaskResult
    \/ UpdateDependencies
    \/ \E p \in Files : FsChange(p)
    \/ \E p \in Files : FsBackdate(p)
    \/ \E f \in WriteFaults : FaultChange(f)
WriteSpec == TrackerInit /\ [][WriteNext]_vars

\* A caller fingerprints the probed path.
Fingerprint ==
    /\ Len(probe.taken) < MaxProbes
    /\ probe' = [probe EXCEPT !.taken =
                     Append(@, [entry |-> probe.entry,
                                result |-> async_try_from(probe.entry)])]
    /\ UNCHANGED <<config, fs, clock, cache, changes, pc, run, target,
                   saved_dependencies, task_parents, dependency_counts, ready_tasks,
                   queue, task_ids, inflight, result, dispatched, skipped, spawned, log,
                   bytes, loaded, checks, recorded, readback, results, faults, yaml>>

\* Between two fingerprints another process changes one thing about the
\* probed path: its modification time, its bytes, its permissions, its
\* kind, or whether it can be looked up.
Alter ==
    /\ probe.taken # <<>>
    /\ Len(probe.taken) < MaxProbes
    /\ probe.taken[Len(probe.taken)].entry = probe.entry
    /\ \E e \in Entries :
          /\ Cardinality({f \in DOMAIN e : e[f] # probe.entry[f]}) = 1
          /\ probe' = [probe EXCEPT !.entry = e]
    /\ UNCHANGED <<config, fs, clock, cache, changes, pc, run, target,
                   saved_dependencies, task_parents, dependency_counts, ready_tasks,
                   queue, task_ids, inflight, result, dispatched, skipped, spawned, log,
                   bytes, loaded, checks, recorded, readback, results, faults, yaml>>

\* The registry reader makes a BaseTask of the task body.
ParseTask ==
    /\ yaml.task = <<>>
    /\ yaml' = [yaml EXCEPT !.task =
                    <<[body |-> yaml.body,
                       result |-> BaseTask_from_task_yaml(yaml.name, yaml.body)]>>]
    /\ UNCHANGED <<config, fs, clock, cache, changes, pc, run, target,
                   saved_dependencies, task_parents, dependency_counts, ready_tasks,
                   queue, task_ids, inflight, result, dispatched, skipped, spawned, log,
                   bytes, loaded, checks, recorded, readback, results, probe, faults>>

\* The parser on its own: any task body.
ParseInit == InitWith({[s |-> [dependencies |-> <<>>, inputs |-> {},
                               command |-> "exit0"]]}, {PlainFile}, Bodies)
ParseNext == ParseTask
ParseSpec == ParseInit /\ [][ParseNext]_vars

\* The fingerprinter on its own: any path, fingerprinted again and again.
FingerprintInit == InitWith({[s |-> [dependencies |-> <<>>, inputs |-> {},
                                     command |-> "exit0"]]}, Entries, {EmptyBody})
FingerprintNext == Fingerprint \/ Alter
FingerprintSpec == FingerprintInit /\ [][FingerprintNext]_vars

\* The scheduling the runtime gives: the scheduler's coroutine is polled
\* whenever it can go on, and every closure in the worker pool ends.
TaskIds == UNION {DOMAIN deps : deps \in Catalogs}
FairSpec ==
    /\ Spec
    /\ WF_vars(DispatchInitial)
    /\ WF_vars(ProcessTaskResult)
    /\ \A task_id \in TaskIds : WF_vars(TaskRun(task_id))

\* ------------------------------------------------------------------ claims
\* N: the closure of the current run's target
Needed == collect_needed_tasks(config, target)
Executing == pc \in {"seeding", "processing"}
DeclaredDeps(task_id) ==
    IF task_id \in DOMAIN config THEN Range(config[task_id].dependencies) ELSE {}
\* the tasks task_id depends on, directly or transitively
TransitiveDeps(task_id) ==
    UNION {collect_needed_tasks(config, d) : d \in DeclaredDeps(task_id)}
Acyclic == \A id \in DOMAIN config : id \notin TransitiveDeps(id)
WellFormed ==
    /\ Acyclic
    /\ target \in DOMAIN config
    /\ \A id \in DOMAIN config : DeclaredDeps(id) \subseteq DOMAIN config
AllSucceed == \A id \in Needed \cap DOMAIN config : config[id].command = "exit0"
DispatchedIds == {dispatched[i].id : i \in DOMAIN dispatched}
Occurrences(seq, x) == Cardinality({i \in DOMAIN seq : seq[i] = x})
NothingInFlight == \A id \in DOMAIN inflight : inflight[id] = 0

\* C1: every task is dispatched only after the scheduler has consumed an Ok
\* completion event for each of its declared dependencies.
C1_DispatchAfterDependencies ==
    \A i \in DOMAIN dispatched :
        DeclaredDeps(dispatched[i].id) \subseteq dispatched[i].done

\* C2: within one execute() every task id is dispatched at most once and
\* appears at most once in the completed vector.
C2_SingleDispatch ==
    /\ \A i, j \in DOMAIN dispatched : dispatched[i].id = dispatched[j].id => i = j
    /\ \A i, j \in DOMAIN task_ids : task_ids[i] = task_ids[j] => i = j

\* a run over a catalog with a dependency listed twice, or shared by two
\* dependents, has dispatched and returned
C2_Witness ==
    /\ result = "Ok"
    /\ dispatched # <<>>
    /\ \E id \in Needed \cap DOMAIN config :
          \/ \E i, j \in DOMAIN config[id].dependencies :
                i # j /\ config[id].dependencies[i] = config[id].dependencies[j]
          \/ Len(task_parents[id]) > 1

\* C3: a task outside the closure N of the target is never dispatched, never
\* handed to the pool or spawned, and never in the completed vector.
C3_OnlyNeededTasks ==
    run > 0 =>
        /\ DispatchedIds \subseteq Needed
        /\ Range(task_ids) \subseteq Needed
        /\ \A id \in DOMAIN config \ Needed : inflight[id] = 0 /\ spawned[id] = 0

\* the pruning scenario has run to its end: z is in the catalog, not in N
C3_Witness ==
    /\ "z" \in DOMAIN config
    /\ target = "b"
    /\ result = "Ok"
    /\ pc = "exited"

\* C4: on a well-formed catalog whose tasks all succeed, a successful
\* execute() returns every task of N exactly once, the target last.
C4_CompletedIsClosure ==
    (result = "Ok" /\ WellFormed /\ AllSucceed) =>
        /\ Range(task_ids) = Needed
        /\ Len(task_ids) = Cardinality(Needed)
        /\ task_ids[Len(task_ids)] = target

\* C5: in the completed vector of a successful execute() every task comes
\* after all of its declared dependencies.
C5_CompletedInDependencyOrder ==
    result = "Ok" =>
        \A i \in DOMAIN task_ids :
            \A d \in DeclaredDeps(task_ids[i]) :
                \E j \in 1..(i - 1) : task_ids[j] = d

\* C6: when a task of N fails (its command exits non-zero and it has no
\* record to be skipped by), execute() does not succeed and no task that
\* depends on it, directly or transitively, is dispatched.
C6_FailureStopsDependents ==
    \A a \in Needed \cap DOMAIN config :
        (run > 0 /\ config[a].command = "exit1" /\ a \notin DOMAIN saved_dependencies) =>
            /\ result # "Ok"
            /\ \A b \in DispatchedIds : a \notin TransitiveDeps(b)

\* C7: the completion loop does not wait forever: with nothing queued and
\* nothing in flight it can take its premature-end return.
C7_LoopNeverStuck ==
    (pc = "processing" /\ queue = <<>> /\ NothingInFlight) => ENABLED ProcessTaskResult

\* C8: on a well-formed graph execute() eventually returns, never with the
\* premature-end outcome, and with success when every task of N exits 0.
C8_WellFormedTerminates ==
    /\ (Executing /\ WellFormed) ~> (result \in {"Ok", "TaskExecutionError"})
    /\ [](WellFormed => result # "ExecutionEndedPrematurely")
    /\ []((WellFormed /\ AllSucceed /\ result # "none") => result = "Ok")

\* a well-formed graph of several tasks whose run has returned success
C8_Witness ==
    /\ WellFormed
    /\ Cardinality(Needed) > 1
    /\ result = "Ok"

\* C9: a task found up to date at dispatch is not handed to the worker pool
\* and spawns no subprocess; exactly one event, Ok(id), is enqueued for it,
\* and once consumed it is in the completed vector.
C9_SkipPath ==
    \A id \in skipped :
        /\ inflight[id] = 0
        /\ spawned[id] = 0
        /\ Occurrences(queue, OkEvent(id)) + Occurrences(task_ids, id) = 1
        /\ Occurrences(queue, ErrEvent(id)) = 0

\* a skipped task has been consumed and the run has returned
C9_Witness ==
    /\ skipped # {}
    /\ result = "Ok"
    /\ \E id \in skipped : id \in Range(task_ids)

\* C10: two runs in a row on the same target with no filesystem change in
\* between: the second spawns no subprocess and completes the same task ids.
C10_SkipIdempotence ==
    (/\ pc = "exited"
     /\ Len(log) = 2
     /\ log[1].result = "Ok"
     /\ log[1].target = log[2].target
     /\ log[1].changes = log[2].changes) =>
        /\ log[2].result = "Ok"
        /\ log[2].spawned = 0
        /\ log[2].completed = log[1].completed

\* ------------------------------------------------------- claims on the graph
RECURSIVE Closure(_, _)
\* the ids reachable from the ids of S over declared dependency edges
Closure(cfg, S) ==
    LET next == S \cup UNION {Range(cfg[id].dependencies) : id \in S \cap DOMAIN cfg}
    IN  IF next = S THEN S ELSE Closure(cfg, next)

\* C19: for a catalog without cycles, the keys of the graph's parents map
\* are exactly the ids reachable from the target over declared dependency
\* edges, and every dependency a task of N declares is in N.
C19_GraphKeysAreClosure ==
    (run > 0 /\ Acyclic) =>
        /\ DOMAIN task_parents = Closure(config, {target})
        /\ \A id \in DOMAIN task_parents : DeclaredDeps(id) \subseteq DOMAIN task_parents

\* a graph of three levels has been built from an acyclic catalog
C19_Witness ==
    /\ run > 0
    /\ Acyclic
    /\ \E id \in DOMAIN task_parents \ {target} :
          id \notin DeclaredDeps(target) /\ id \in TransitiveDeps(target)

\* C20: every dependency edge of the closure is present as a reverse edge:
\* a task of N is among the parents of each dependency it declares.
C20_ReverseEdges ==
    run > 0 =>
        \A a \in DOMAIN task_parents : \A b \in DeclaredDeps(a) :
            b \in DOMAIN task_parents /\ a \in Range(task_parents[b])

\* the graph of a task with two distinct dependencies has been built
C20_Witness ==
    /\ run > 0
    /\ Cardinality(DeclaredDeps(target)) > 1
    /\ \A b \in DeclaredDeps(target) : target \in Range(task_parents[b])

\* ----------------------------------------------------- claims on the tracker
\* the paths of a dispatch-time entry that exist
Existing(state) == {p \in DOMAIN state : state[p].mtime # 0}
\* the paths whose content or modification time is not what it was when
\* the task's record was taken
Mutated(c) == {p \in DOMAIN c.inputs : c.inputs[p] # c.at_record[p]}
\* the paths whose modification time (or existence) is not what it was
Restamped(c) == {p \in DOMAIN c.inputs : c.inputs[p].mtime # c.at_record[p].mtime}
Check(i) == checks[i]

\* C11: a task recorded by a previous run, one of whose input paths has had
\* its bytes or its modification time mutated since, is not up to date at
\* its next dispatch.
C11_MutationDetected ==
    \A i \in DOMAIN checks :
        (Check(i).persisted /\ Mutated(Check(i)) # {}) => ~Check(i).skipped

\* C11 (amended): a task recorded by a previous run, one of whose input
\* paths has a modification time (or an existence) other than the recorded
\* one, is not up to date at its next dispatch, and the run that completes
\* it has spawned its subprocess.
C11_MtimeChangeDetected ==
    \A i \in DOMAIN checks :
        (Check(i).persisted /\ Restamped(Check(i)) # {}) =>
            /\ ~Check(i).skipped
            /\ (result = "Ok" /\ Check(i).id = target) => spawned[Check(i).id] > 0

\* a recorded task whose input file was written again has been run again
C11_Witness ==
    /\ pc = "exited"
    /\ result = "Ok"
    /\ \E i \in DOMAIN checks :
          /\ Check(i).persisted /\ Check(i).known
          /\ \E p \in Restamped(Check(i)) :
                Check(i).inputs[p].mtime > 0 /\ Check(i).at_record[p].mtime > 0
          /\ ~Check(i).skipped
          /\ spawned[Check(i).id] > 0

\* C12: a task for which the tracker holds no record is never up to date,
\* whatever its inputs and the state of the filesystem.
C12_NoRecordNotUpToDate ==
    \A i \in DOMAIN checks : ~Check(i).known => ~Check(i).skipped

\* a task without a record whose inputs cover nothing that exists (its
\* current fingerprint map is empty) has been dispatched and run
C12_Witness ==
    \E i \in DOMAIN checks :
        /\ ~Check(i).known
        /\ Existing(Check(i).inputs) = {}
        /\ spawned[Check(i).id] > 0

\* C13: a task with a record is up to date exactly when the record and the
\* current fingerprints have the same paths and the same fingerprint for
\* every path.
C13_UpToDateIffEqual ==
    \A i \in DOMAIN checks :
        Check(i).known =>
            (Check(i).skipped <=>
                /\ DOMAIN Check(i).record = Existing(Check(i).inputs)
                /\ \A p \in Existing(Check(i).inputs) :
                       Check(i).record[p] = Check(i).inputs[p].mtime)

\* a task whose recorded input file has been deleted was found out of date
C13_Witness ==
    \E i \in DOMAIN checks :
        /\ Check(i).known
        /\ DOMAIN Check(i).record \ Existing(Check(i).inputs) # {}
        /\ ~Check(i).skipped

\* C14: a task whose inputs cover no existing path, both when its record was
\* taken and now, is up to date whenever the tracker holds its record.
C14_EmptyRecordUpToDate ==
    \A i \in DOMAIN checks :
        (/\ Check(i).known
         /\ Check(i).persisted
         /\ Existing(Check(i).at_record) = {}
         /\ Existing(Check(i).inputs) = {}) => Check(i).skipped

\* a task whose one input path did not exist at either time was skipped
C14_Witness ==
    \E i \in DOMAIN checks :
        /\ Check(i).known /\ Check(i).persisted
        /\ DOMAIN Check(i).inputs # {}
        /\ Existing(Check(i).at_record) = {}
        /\ Existing(Check(i).inputs) = {}
        /\ Check(i).skipped

\* the fingerprint map of a task whose inputs are in the given state
Expand(state) == [p \in Existing(state) |-> state[p].mtime]
\* the summary of the run that has just ended
LastRun == log[Len(log)]
\* a run has ended with success and the driver has done its update
Updated == pc = "exited" /\ result = "Ok"
\* the tracker the current run started from
Carried == ReadTracker(loaded)

C16_OtherRecordsKept ==
    Updated =>
        \A id \in DOMAIN Carried \ LastRun.completed :
            /\ id \in DOMAIN saved_dependencies
            /\ saved_dependencies[id] = Carried[id]
            /\ Encodable(saved_dependencies) =>
                  id \in DOMAIN readback /\ readback[id] = Carried[id]

\* a run on another target has kept and flushed a record with a fingerprint
C16_Witness ==
    /\ Updated
    /\ Encodable(saved_dependencies)
    /\ \E id \in DOMAIN Carried \ LastRun.completed :
          Carried[id] # <<>> /\ readback[id] = Carried[id]

\* the cache file the run read was missing, did not decompress or did not
\* decode
LoadFailed == ~loaded.exists \/ ~loaded.zstd \/ ~loaded.bincode

\* C17: a run whose cache file is missing, does not decompress or does not
\* decode starts from the empty tracker and finds no task up to date.
C17_LoadFailureGivesEmptyTracker ==
    (LoadFailed /\ pc \in {"seeding", "processing", "updating"}) =>
        /\ saved_dependencies = <<>>
        /\ \A i \in DOMAIN checks : ~Check(i).skipped

\* a run that read a damaged cache file has run a task that had a record
\* and has ended with success
C17_Witness ==
    /\ loaded.exists /\ (~loaded.zstd \/ ~loaded.bincode)
    /\ Updated
    /\ \E i \in DOMAIN checks :
          Check(i).persisted /\ ~Check(i).skipped /\ spawned[Check(i).id] > 0

C21_TrackerMutatedOnceByDriver ==
    /\ [](Executing => saved_dependencies = Carried)
    /\ [](pc = "updating" =>
             /\ result = "Ok"
             /\ saved_dependencies = Carried
             /\ NothingInFlight)
    /\ []((pc = "exited" /\ result # "Ok") => saved_dependencies = Carried)
    /\ [](result = "Ok" => pc \in {"updating", "exited"})
    /\ [][saved_dependencies' # saved_dependencies =>
             \/ pc \in {"idle", "exited"} /\ pc' \in {"seeding", "processing"}
             \/ pc = "updating" /\ pc' = "exited"]_vars
    /\ [][(pc = "updating" /\ pc' # pc) =>
             /\ pc' = "exited"
             /\ saved_dependencies' =
                    add_tasks_dependencies(saved_dependencies, task_ids, 1, config, Platform)]_vars

\* a run that handed a task with an input file to the worker pool has ended
\* with success and the driver has changed the tracker it had loaded
C21_Witness ==
    /\ Updated
    /\ spawned[target] > 0
    /\ saved_dependencies # Carried
    /\ saved_dependencies[target] # <<>>

\* the closures handed to the worker pool that have not finished: the
\* subprocesses executing and the closures waiting in the pool
InPool == SumOver(inflight, DOMAIN inflight)

Result(i) == results[i]

\* C23: a task's run gives Ok(task id) exactly when its subprocess was
\* spawned, waited for and exited with status 0; a subprocess that ended
\* otherwise gives UnsuccessfulExecution with the command, the task id and
\* the status; a failure to spawn or to wait gives SpawnError or WaitError;
\* nothing else is returned.
C23_RunResult ==
    \A i \in DOMAIN results :
        LET o == Result(i).outcome
            r == Result(i).result
            id == Result(i).id
        IN  /\ r.ok <=> (o.spawned /\ o.waited /\ o.code = <<0>>)
            /\ r.ok => r = [ok |-> TRUE, value |-> id]
            /\ ~r.ok =>
                  /\ r.error.command = config[id].command
                  /\ r.error.task_name = id
                  /\ r.error.kind =
                         IF ~o.spawned THEN "SpawnError"
                         ELSE IF ~o.waited THEN "WaitError"
                         ELSE "UnsuccessfulExecution"
                  /\ r.error.kind = "UnsuccessfulExecution" =>
                         /\ o.code # <<0>>
                         /\ o.code # <<>> => r.error.status = o.code[1]
                  /\ DOMAIN r.error \subseteq {"kind", "command", "task_name", "status"}

\* after a run whose task exited 0 and returned Ok, a run whose task exited 1
\* has returned UnsuccessfulExecution with status 1
C23_Witness ==
    /\ Len(log) = 2
    /\ log[1].result = "Ok" /\ log[1].spawned > 0
    /\ log[2].result = "TaskExecutionError"
    /\ \E i \in DOMAIN results :
          /\ Result(i).outcome = Exited(1)
          /\ Result(i).result.error.kind = "UnsuccessfulExecution"
          /\ Result(i).result.error.status = 1

\* ------------------------------------------------- claims on the fingerprint
Taken(i) == probe.taken[i]

\* C24: fingerprinting a path gives PathError when its metadata cannot be
\* read, DirectoryError when it is a directory, ModifiedTime(t) without a
\* read of the file when the platform reports the modification time t, and
\* otherwise the hash of all the bytes read, or PathError when the read
\* fails; two fingerprints of a path nothing has changed are equal.
C24_FingerprintCases ==
    /\ \A i \in DOMAIN probe.taken :
          LET e == Taken(i).entry
              r == Taken(i).result
          IN  /\ ~e.metadata => (~r.ok /\ r.error = "PathError")
              /\ (e.metadata /\ e.is_dir) => (~r.ok /\ r.error = "DirectoryError")
              /\ (e.metadata /\ ~e.is_dir /\ e.modified # <<>>) =>
                    /\ r.ok
                    /\ r.fingerprint = [kind |-> "ModifiedTime", value |-> e.modified[1]]
                    /\ ~r.read
              /\ (e.metadata /\ ~e.is_dir /\ e.modified = <<>> /\ ~e.readable) =>
                    (~r.ok /\ r.error = "PathError")
              /\ (e.metadata /\ ~e.is_dir /\ e.modified = <<>> /\ e.readable) =>
                    /\ r.ok
                    /\ r.fingerprint.kind = "Hash"
                    /\ \A j \in DOMAIN probe.taken :
                          (Taken(j).result.ok /\ Taken(j).result.fingerprint.kind = "Hash") =>
                              (Taken(j).result.fingerprint = r.fingerprint
                                   <=> Taken(j).entry.content = e.content)
    /\ \A i, j \in DOMAIN probe.taken :
          Taken(i).entry = Taken(j).entry => Taken(i).result = Taken(j).result

\* a file without a modification time has been hashed twice, before and
\* after a change of its last byte only, and the fingerprints differ
C24_Witness ==
    /\ Len(probe.taken) = 2
    /\ Taken(1).result.ok /\ Taken(2).result.ok
    /\ Taken(1).result.fingerprint.kind = "Hash"
    /\ Taken(2).result.fingerprint.kind = "Hash"
    /\ Len(Taken(1).entry.content) = 2 /\ Len(Taken(2).entry.content) = 2
    /\ Taken(1).entry.content[1] = Taken(2).entry.content[1]
    /\ Taken(1).result.fingerprint # Taken(2).result.fingerprint

\* ------------------------------------------------ claims on the scheduler
\* the tasks dispatched by the seeding: the completed vector was empty
Seeded == {dispatched[i].id : i \in {j \in DOMAIN dispatched : dispatched[j].done = {}}}
\* the tasks of N that declare no dependency
Leaves == {id \in Needed \cap DOMAIN config : config[id].dependencies = <<>>}

\* C25: the seeding dispatches no task that declares a dependency, and once
\* it is over it has dispatched exactly the tasks of N that declare none.
C25_SeedingDispatchesLeaves ==
    run > 0 =>
        /\ Seeded \subseteq Leaves
        /\ pc # "seeding" => Seeded = Leaves

\* the dispatch_task calls the step adds to those of the running execute()
NewlyDispatched ==
    IF Len(dispatched') > Len(dispatched)
    THEN {dispatched'[i].id : i \in (Len(dispatched) + 1)..Len(dispatched')}
    ELSE {}
\* the step consumes an Ok event of the completion channel
ConsumesOk == pc = "processing" /\ Len(task_ids') = Len(task_ids) + 1

ConsumesErr ==
    /\ pc = "processing"
    /\ queue # <<>>
    /\ ~Head(queue).ok
    /\ queue' = Tail(queue)
\* execute() has returned the error of a task
Failed == pc = "exited" /\ result = "TaskExecutionError"

\* C27: the step that consumes an Err event ends execute() with
\* TaskExecutionError: it dispatches nothing and returns no completed
\* vector; and after it, until another run starts, nothing is dispatched,
\* no event is consumed and the driver records nothing.
C27_ErrEndsExecution ==
    /\ [][ConsumesErr =>
             /\ result' = "TaskExecutionError"
             /\ pc' = "exited"
             /\ dispatched' = dispatched
             /\ inflight' = inflight
             /\ log'[Len(log')].completed = {}]_vars
    /\ [][(Failed /\ pc' = "exited") =>
             /\ dispatched' = dispatched
             /\ inflight' = inflight
             /\ queue' = queue
             /\ task_ids' = task_ids
             /\ saved_dependencies' = saved_dependencies
             /\ recorded' = recorded
             /\ cache' = cache]_vars
    /\ [](Failed => saved_dependencies = Carried /\ log[Len(log)].completed = {})

\* the subprocess of a task has exited 1, the loop has consumed its event
\* and execute() has returned the error
C27_Witness ==
    /\ Failed
    /\ queue = <<>>
    /\ \E i \in DOMAIN results : ~results[i].result.ok
    /\ log[Len(log)].result = "TaskExecutionError"

\* -------------------------------------------- claims on the graph's building
\* the ids the DFS of the current run inserted, in order
Visits == collect_dependencies_recursive(config, target, <<>>)
\* the target lies on a cycle of dependency edges
TargetOnCycle == target \in TransitiveDeps(target)

\* the graph of the current run has been built and nothing is dispatched yet
GraphBuilt == Executing /\ dispatched = <<>>

\* C29: whatever the catalog and the target, cycles and self-dependencies
\* included, the DFS ends, has inserted no id twice and no more ids than the
\* catalog and its dependency lists name, and the run goes on with a graph
\* over the ids visited: a cycle is no error.
C29_GraphBuildTerminates ==
    GraphBuilt =>
        LET visits == Visits
        IN  /\ \A i, j \in DOMAIN visits : visits[i] = visits[j] => i = j
            /\ Range(visits) \subseteq
                   {target} \cup UNION {Range(config[id].dependencies) : id \in DOMAIN config}
            /\ DOMAIN task_parents = Range(visits)
            /\ result = "none"

\* the graph of a target that lies on a cycle of two tasks has been built
C29_Witness ==
    /\ GraphBuilt
    /\ TargetOnCycle
    /\ Len(Visits) > 1
    /\ DOMAIN task_parents = Range(Visits)

\* The existing paths among the inputs of the check c that a refusal of the
\* platform kept out of the fingerprint map.
LeftOut(c) ==
    IF Unavailable \in c.faults \/ (DOMAIN c.inputs = Paths /\ Root \in c.faults)
    THEN Existing(c.inputs)
    ELSE Existing(c.inputs) \cap c.faults

\* the fingerprint map of the paths of the check c that were not left out
Remaining(c) == [p \in Existing(c.inputs) \ LeftOut(c) |-> c.inputs[p].mtime]

\* C30 (as stated): a task with a fingerprint error on one of its inputs is
\* never found up to date: it is executed, not skipped.
C30_ErrorMeansNotUpToDate ==
    \A i \in DOMAIN checks : LeftOut(Check(i)) # {} => ~Check(i).skipped

\* C30 (amended): a fingerprint error on an input never aborts the run, the
\* run ends in an error only if the task's command fails; the path is left
\* out of the current fingerprints, so the task is up to date exactly when
\* its record equals the fingerprints of the remaining paths, and never when
\* its record holds a path that was left out.
C30_ErrorLeavesPathOut ==
    \A i \in DOMAIN checks :
        LET c == Check(i) IN
        LeftOut(c) # {} =>
            /\ c.skipped <=> (c.known /\ c.record = Remaining(c))
            /\ (c.known /\ DOMAIN c.record \cap LeftOut(c) # {}) => ~c.skipped
            /\ (pc = "exited" /\ config[c.id].command = "exit0") => result = "Ok"
            /\ result \in {"none", "Ok", "TaskExecutionError"}

\* a task whose input directory cannot be listed, now and when its record
\* was taken, was skipped; and one whose recorded file cannot be
\* fingerprinted any more was executed
C30_Witness ==
    \/ \E i \in DOMAIN checks :
          /\ Root \in Check(i).faults
          /\ LeftOut(Check(i)) # {}
          /\ Check(i).known
          /\ Check(i).skipped
          /\ result = "Ok"
    \/ \E i \in DOMAIN checks :
          /\ Check(i).known
          /\ DOMAIN Check(i).record \cap LeftOut(Check(i)) # {}
          /\ ~Check(i).skipped
          /\ result = "Ok"

\* -------------------------------------------------- claims on the tracker's write
\* the driver's update step
Updates == pc = "updating" /\ pc' = "exited"
\* the tracker the update step holds does not reach the cache file: it does
\* not serialize, or the platform refuses a step of the write
WriteFails == ~Encodable(saved_dependencies') \/ faults \cap WriteFaults # {}
\* of the steps of the write, only fs::write's own write fails
OnlyWriteFails ==
    /\ Encodable(saved_dependencies')
    /\ faults \cap WriteFaults = {Unwritten}
\* a successful run has ended and the cache file does not hold its tracker
Unsaved == Updated /\ ReadTracker(cache) # saved_dependencies

\* C31 (as stated): a failure to serialize, compress or write the tracker
\* leaves the cache file with its previous content, or absent.
C31_FailedWriteKeepsCache ==
    [][(Updates /\ WriteFails) => cache' = cache]_vars

\* C31 (amended): a failure to serialize, compress or write the tracker is
\* swallowed and the run reports success.  The cache file keeps its previous
\* content (or stays absent) unless fs::write created the file and failed
\* to fill it, which leaves a file without content; the next run starts
\* from the records the failed run started from, or from none.
C31_FailedWriteSwallowed ==
    /\ [][(Updates /\ WriteFails) =>
             /\ result' = "Ok"
             /\ log'[Len(log')].result = "Ok"
             /\ cache = loaded
             /\ cache' = IF OnlyWriteFails THEN Truncated ELSE loaded]_vars
    /\ [][(Unsaved /\ run' = run + 1) =>
             /\ saved_dependencies' = IF cache = Truncated THEN <<>> ELSE Carried
             /\ saved_dependencies' # saved_dependencies]_vars

\* a run that held a record the tracker could not write ended with success:
\* its cache file is as the run found it, with older records
C31_Witness ==
    /\ Unsaved
    /\ Unopened \in faults
    /\ cache = loaded
    /\ cache.exists
    /\ \E id \in LastRun.completed : saved_dependencies[id] # <<>>

\* ---------------------------------------------------- claims on the task parser
\* the BaseTask made of the task body, and the body it was made of
Parsed == yaml.task[1].result[1]
ParsedBody == yaml.task[1].body
\* the positions of the string items of a Yaml sequence
StringPositions(items) == {i \in DOMAIN items : items[i].yaml = "String"}
\* `list` is the string items of the sequence `items`, in their order
KeepsStrings(list, items) ==
    /\ Len(list) = Cardinality(StringPositions(items))
    /\ \A i \in StringPositions(items) :
          list[Cardinality({j \in StringPositions(items) : j <= i})] = items[i].value
\* what the claim expects of the list made of the value under `key`
ExpectedList(list, body, key) ==
    IF key \in DOMAIN body /\ body[key].yaml = "Sequence"
    THEN KeepsStrings(list, body[key].items)
    ELSE list = <<>>

\* C32: the parsed task keeps exactly the string items of dependsOn and of
\* inputs, in their order; a value that is not a sequence (or is missing)
\* gives an empty list; the task is created in every case.
C32_StringItemsKept ==
    yaml.task # <<>> =>
        /\ yaml.task[1].result # <<>>
        /\ Parsed.name = yaml.name
        /\ ExpectedList(Parsed.dependencies, ParsedBody, "dependsOn")
        /\ ExpectedList(Parsed.inputs, ParsedBody, "inputs")

\* a dependsOn with a string after an item that is not one, and an inputs
\* that is not a sequence, have been parsed
C32_Witness ==
    /\ yaml.task # <<>>
    /\ "dependsOn" \in DOMAIN ParsedBody
    /\ ParsedBody["dependsOn"] = YamlSequence(<<YamlInteger, YamlString("valid_dep")>>)
    /\ Parsed.dependencies = <<"valid_dep">>
    /\ "inputs" \in DOMAIN ParsedBody
    /\ ParsedBody["inputs"] = YamlString("valid_dep")
    /\ Parsed.inputs = <<>>

\* ------------------------------------------- claims on skipping and dependencies
\* the dependencies of task_id that the run started without a record of, so
\* that they are not up to date
StaleDeps(task_id) == (DeclaredDeps(task_id) \cap DOMAIN config) \ DOMAIN Carried

\* C33: whether a task is skipped is decided by its own record and the
\* current fingerprints of its own inputs: a task whose record equals them
\* is skipped and no other is, whatever became of its dependencies.
C33_SkipOnOwnRecordOnly ==
    \A i \in DOMAIN checks :
        Check(i).skipped <=>
            (Check(i).known /\ Check(i).record = Expand(Check(i).inputs))

\* a task with unchanged inputs was skipped in a run that started with a
\* dependency of it out of date
C33_Witness ==
    \E i \in DOMAIN checks :
        /\ Check(i).skipped
        /\ Check(i).record = Expand(Check(i).inputs)
        /\ Check(i).record # <<>>
        /\ StaleDeps(Check(i).id) # {}

\* ------------------------------------------------ claims on a failed execute()
\* execute() has returned an error
Errored == result \notin {"none", "Ok"}
\* a step of the run itself: no other process acts, no run starts
RunStep == changes' = changes /\ run' = run

\* C34: when execute() returns an error the driver stops: it does not take
\* its update step, the tracker in memory stays as loaded, the cache file
\* and its modification time stay as they are, and no completed vector is
\* returned; a run that starts next reads the records the failed run read.
C34_ErrorLeavesCache ==
    /\ [](Errored =>
             /\ pc = "exited"
             /\ saved_dependencies = Carried
             /\ LastRun.result = result
             /\ LastRun.completed = {})
    /\ [][(Errored' /\ RunStep) =>
             /\ cache' = cache
             /\ fs'[CacheFile] = fs[CacheFile]
             /\ saved_dependencies' = saved_dependencies
             /\ recorded' = recorded
             /\ readback' = readback]_vars
    /\ [][(Errored /\ cache = loaded /\ run' = run + 1) =>
             saved_dependencies' = Carried]_vars

\* a task recorded by an earlier run has failed in this one, and the cache
\* file holds what the run found in it
C34_Witness ==
    /\ Errored
    /\ cache.exists
    /\ cache = loaded
    /\ \E i \in DOMAIN results :
          /\ ~results[i].result.ok
          /\ results[i].id \in DOMAIN Carried
          /\ results[i].id \in DOMAIN ReadTracker(cache)

\* ------------------------------------------------- claims on the worker pool
\* how often dispatch_task handed task_id to the worker pool in this run
Handed(task_id) ==
    Cardinality({i \in DOMAIN dispatched :
                   dispatched[i].id = task_id /\ task_id \notin skipped})
\* the closures of task_id that have ended, and the events they sent
Ended(task_id) == {i \in DOMAIN results : results[i].id = task_id}
Sent(task_id) == {i \in Ended(task_id) : results[i].sent # <<>>}

\* C36: every closure handed to the worker pool sends exactly one event to
\* the completion channel: none while it is in the pool, one from its end
\* on, and none is left in the pool when execute() has returned.  The event
\* is Ok(id) when the task's run gave Ok, and an Err otherwise, also when
\* the closure was dropped (CanceledError).
C36_OneEventPerPooledTask ==
    /\ \A id \in DOMAIN inflight :
          /\ Handed(id) = inflight[id] + Cardinality(Sent(id))
          /\ Ended(id) = Sent(id)
          /\ ~Executing => inflight[id] = 0
    /\ \A i \in DOMAIN results :
          results[i].sent = <<IF results[i].result.ok THEN OkEvent(results[i].id)
                               ELSE ErrEvent(results[i].id)>>
    /\ Len(results) + Cardinality(skipped) = Len(task_ids) + Len(queue)
                                             + (IF Errored THEN 1 ELSE 0)

\* the closure of a task was dropped, its one event was an Err, and
\* execute() has returned it
C36_Witness ==
    /\ Errored
    /\ \E i \in DOMAIN results :
          /\ results[i].result.error.kind = "CanceledError"
          /\ Handed(results[i].id) = 1
          /\ Sent(results[i].id) = {i}

\* ---------------------------------------------- claims on undefined dependencies
\* the dependency ids task_id declares that no task of the catalog defines
Missing(task_id) == DeclaredDeps(task_id) \ DOMAIN config
\* the completion events of task_id: waiting in the channel, or consumed
EventsOf(task_id) ==
    {i \in DOMAIN queue : queue[i].id = task_id}
        \cup {i \in DOMAIN task_ids : task_ids[i] = task_id}

\* C37: an id that a task of N declares as a dependency and that no task
\* defines is in N and is a key of parents, with the declaring task among
\* its parents; it is never dispatched, never in the worker pool and never
\* produces a completion event; and the declaring task is never dispatched
\* by the completion loop (after a completion was consumed).
C37_UndefinedDependencyNeverRuns ==
    pc # "idle" =>
        \A t \in Needed \cap DOMAIN config : \A x \in Missing(t) :
            /\ x \in Needed
            /\ x \in DOMAIN task_parents
            /\ t \in Range(task_parents[x])
            /\ x \notin DispatchedIds
            /\ x \notin DOMAIN inflight \/ inflight[x] = 0
            /\ EventsOf(x) = {}
            /\ \A i \in DOMAIN dispatched :
                  dispatched[i].id = t => dispatched[i].done = {}

\* a run whose target declares an undefined dependency has ended: the id is
\* a key of parents and the run dispatched nothing but the target
C37_Witness ==
    /\ Updated
    /\ Missing(target) # {}
    /\ Missing(target) \subseteq DOMAIN task_parents
    /\ DispatchedIds = {target}

\* ------------------------------------------------------------ claims on cycles
\* task_id lies on a cycle of dependency edges
OnCycle(task_id) == task_id \in TransitiveDeps(task_id)
\* the target lies on a cycle, or every task it depends on does
TargetBehindCycle ==
    \/ OnCycle(target)
    \/ DeclaredDeps(target) # {} /\ \A d \in DeclaredDeps(target) : OnCycle(d)

\* C38: when the target lies on a dependency cycle, or depends only on tasks
\* that do, no task on a cycle is dispatched and execute() does not return
\* success.
C38_CycleNeverSucceeds ==
    (pc # "idle" /\ TargetBehindCycle) =>
        /\ \A id \in DispatchedIds : ~OnCycle(id)
        /\ result # "Ok"

\* ------------------------------------------- claims on the time of the record
\* C39: the record of a completed task holds the fingerprints of its inputs
\* as they are when the driver's update runs, whatever they were when the
\* task was dispatched or ran, and the cache file holds that record; a later
\* run that finds the inputs as they were at the update skips the task.
C39_RecordTakenAtUpdate ==
    /\ Updated =>
          \A id \in LastRun.completed :
              /\ saved_dependencies[id] = Expand(LastRun.inputs[id])
              /\ id \in DOMAIN readback
              /\ readback[id] = Expand(LastRun.inputs[id])
    /\ \A i \in DOMAIN checks :
          (/\ Check(i).persisted
           /\ Expand(Check(i).inputs) = Expand(Check(i).at_record)) =>
              /\ Check(i).record = Expand(Check(i).at_record)
              /\ Check(i).skipped

\* an input of the target was changed after the target ran and before the
\* update: the record holds the changed file's fingerprint
C39_Witness ==
    /\ Updated
    /\ \E i \in DOMAIN results :
          /\ results[i].id \in LastRun.completed
          /\ results[i].result.ok
          /\ Expand(results[i].inputs) # Expand(LastRun.inputs[results[i].id])
          /\ Expand(results[i].inputs) # <<>>
          /\ saved_dependencies[results[i].id] = Expand(LastRun.inputs[results[i].id])
          /\ saved_dependencies[results[i].id] # <<>>
====
